---- MODULE Spec2Model ----
(***************************************************************************)
(* Model of the MPI performance-report pipeline:                           *)
(*   general_utils.py    compile_mpi_program, run_executable,              *)
(*                       parse_execution_output, add_all_stats_to_results  *)
(*   generate_report.py  module import and the /api/analysis handler       *)
(*                                                                         *)
(* Numbers.  Times printed by the benchmarked program are modelled as      *)
(* integers (whole time units).  Every value that the code passes through  *)
(* round(v, 6) is held as an integer number of millionths (Scale), so 1.0  *)
(* is Scale and 0.0 is 0.  Values returned by the C library are exact      *)
(* fractions n/d or one of the IEEE specials nan, posinf, neginf.          *)
(*                                                                         *)
(* Optional values (Python None) are sequences: <<>> is None, <<v>> is v.  *)
(***************************************************************************)
EXTENDS Integers, Sequences, FiniteSets, TLC

\* ------------------------------------------------------------------------
\* Bounds of the model
\* ------------------------------------------------------------------------
MaxLines == 2      \* lines in one program output
MaxTime == 3       \* largest time value a program prints
MaxRank == 1       \* largest rank a program prints
MaxNp == 4         \* largest worker count
MaxCounts == 2     \* longest numP list a session is asked for
MaxSessionNp == 3  \* largest worker count a session is asked for
MaxReqLen == 3     \* longest numP list handed to the normalisation alone
MaxTwoNp == 2      \* largest worker count asked for when two requests interleave
MaxTwoCounts == 1  \* longest numP list asked for when two requests interleave

\* ------------------------------------------------------------------------
\* Program constants
\* ------------------------------------------------------------------------
Scale == 1000000   \* round(v, 6): six decimal places
RankIndex == 5     \* parts[5] holds the rank

None == <<>>
Some(v) == <<v>>
IsNone(o) == o = <<>>
Get(o) == o[1]

\* ------------------------------------------------------------------------
\* Text: a line is a sequence of whitespace-separated tokens
\* ------------------------------------------------------------------------
\* a word, an integer literal ("3") and a decimal literal ("3.0")
W(s) == [k |-> "w", s |-> s, v |-> 0]
I(n) == [k |-> "i", s |-> "", v |-> n]
F(n) == [k |-> "f", s |-> "", v |-> n]

\* str.lower() on one word
LowerWord(s) ==
    CASE s = "MPI" -> "mpi"
      [] s = "Time" -> "time"
      [] s = "Serial" -> "serial"
      [] s = "Summation" -> "summation"
      [] OTHER -> s

\* line.lower()
Lower(line) ==
    [i \in 1..Len(line) |->
        IF line[i].k = "w" THEN W(LowerWord(line[i].s)) ELSE line[i]]

\* the markers that occur as substrings of a (lower-case) word
MarkersIn(s) ==
    CASE s = "mpi" -> {"mpi"}
      [] s = "time" -> {"time"}
      [] s = "runtime" -> {"time"}
      [] s = "serial" -> {"serial"}
      [] s = "summation" -> {"summation"}
      [] OTHER -> {}

\* marker in line
Has(line, marker) ==
    \E i \in 1..Len(line) : line[i].k = "w" /\ marker \in MarkersIn(line[i].s)

\* int(tok) succeeds / float(tok) succeeds
IntParses(tok) == tok.k = "i"
FloatParses(tok) == tok.k \in {"i", "f"}

\* ------------------------------------------------------------------------
\* Values of the C library: exact fractions and IEEE specials
\* ------------------------------------------------------------------------
Num(n, d) == [kind |-> "num", n |-> n, d |-> d]
NaN == [kind |-> "nan", n |-> 0, d |-> 1]
PosInf == [kind |-> "posinf", n |-> 0, d |-> 1]
NegInf == [kind |-> "neginf", n |-> 0, d |-> 1]

\* a < b and a > b on doubles, b a finite fraction (nan compares false)
Lt(a, b) ==
    CASE a.kind = "num" -> a.n * b.d < b.n * a.d
      [] a.kind = "neginf" -> TRUE
      [] OTHER -> FALSE
Gt(a, b) ==
    CASE a.kind = "num" -> a.n * b.d > b.n * a.d
      [] a.kind = "posinf" -> TRUE
      [] OTHER -> FALSE

\* Python min(1.0, v): the first argument stays unless v < 1.0
PyMin1(v) == IF Lt(v, Num(1, 1)) THEN v ELSE Num(1, 1)
\* Python max(0.0, v): the first argument stays unless v > 0.0
PyMax0(v) == IF Gt(v, Num(0, 1)) THEN v ELSE Num(0, 1)

\* round(v, 6) of a finite fraction, in millionths (ties to even)
Round6(v) ==
    LET m == v.n * Scale
        q == m \div v.d
        r == m % v.d
    IN  IF 2 * r < v.d THEN q
        ELSE IF 2 * r > v.d THEN q + 1
        ELSE IF q % 2 = 0 THEN q ELSE q + 1

\* ------------------------------------------------------------------------
\* algorithmslib.so (the C library loaded by load_c_library)
\* ------------------------------------------------------------------------
\* getSpeedup(T1, Tp) = T1 / Tp
getSpeedup(T1, Tp) ==
    IF Tp > 0 THEN Num(T1, Tp)
    ELSE IF Tp < 0 THEN Num(0 - T1, 0 - Tp)
    ELSE IF T1 > 0 THEN PosInf
    ELSE IF T1 < 0 THEN NegInf
    ELSE NaN

\* getEfficiency(S, p) = S / p, for p >= 1
getEfficiency(S, p) ==
    IF S.kind = "num" THEN Num(S.n, S.d * p) ELSE S

\* what a division by zero inside the library may hand back
Unspecified == {NaN, PosInf, NegInf, Num(0, 1), Num(0 - 1, 1), Num(2, 1)}

\* getFractionParallelizable(T1, Tp, p): the f with
\* T1/Tp = 1 / ((1 - f) + f/p), that is f = (1/S - 1) / (1/p - 1)
\*                                        = p (T1 - Tp) / (T1 (p - 1));
\* the set of values the call can return (one value unless it divides by 0)
getFractionParallelizable(T1, Tp, p) ==
    IF p > 1 /\ T1 > 0 THEN {Num(p * (T1 - Tp), T1 * (p - 1))}
    ELSE IF p > 1 /\ T1 < 0 THEN {Num(0 - (p * (T1 - Tp)), 0 - (T1 * (p - 1)))}
    ELSE Unspecified

\* ------------------------------------------------------------------------
\* The results dictionary
\* ------------------------------------------------------------------------
\* ranks: the 'rank N' keys (N |-> time); the other keys are None when absent
EmptyResults ==
    [ranks |-> << >>, serial |-> None, total |-> None,
     speedup |-> None, efficiency |-> None, fp |-> None, fs |-> None]

\* results[key] = value on the 'rank N' keys (last write wins)
PutRank(ranks, rank, time) ==
    [r \in (DOMAIN ranks) \cup {rank} |-> IF r = rank THEN time ELSE ranks[r]]

\* dict.setdefault(key, value)
SetDefault(old, value) == IF IsNone(old) THEN Some(value) ELSE old

\* a variant that takes the fastest rank
MinOf(S) == CHOOSE m \in S : \A v \in S : m <= v

\* max(parallel_times)
MaxOf(S) == CHOOSE m \in S : \A v \in S : v <= m

\* parallel_times: the values under the keys that start with "rank"
ParallelTimes(results) == {results.ranks[r] : r \in DOMAIN results.ranks}

\* a variant whose serial pass reports the run as fully parallel
SerialDefaultsParallel(results) ==
    [results EXCEPT !.speedup = Some(Scale), !.efficiency = Some(Scale),
                    !.fp = Some(Scale), !.fs = Some(0)]

\* the first (serial) pass: setdefault on speedup, efficiency and fp, then fs
SerialDefaults(results) ==
    LET r1 == [results EXCEPT !.speedup = SetDefault(@, Scale),
                              !.efficiency = SetDefault(@, Scale),
                              !.fp = SetDefault(@, 0)]
    IN  [r1 EXCEPT !.fs = Some(Scale - Get(r1.fp))]

\* the fallback when no rank time was parsed, or when Tp <= 0
FallbackDefaults(results) ==
    [results EXCEPT !.speedup = Some(Scale), !.efficiency = Some(Scale),
                    !.fp = Some(0), !.fs = Some(Scale)]

\* a variant that bounds fp from above only
ClampAbove(fp) == PyMin1(fp)

\* max(0.0, min(1.0, fp))
Clamp(fp) == PyMax0(PyMin1(fp))

\* the rounded values assigned from the library's S, E and fp
AssignStats(results, S, E, fp) ==
    LET fpr == Round6(Clamp(fp))
    IN  [results EXCEPT !.speedup = Some(Round6(S)),
                        !.efficiency = Some(Round6(E)),
                        !.fp = Some(fpr),
                        !.fs = Some(Scale - fpr)]

\* the outcome of a call: the dictionary left behind and the number of
\* calls made into the C library
Stats(results, libcalls) == [results |-> results, libcalls |-> libcalls]

\* add_all_stats_to_results(lib, results, np, serial_time): the set of
\* outcomes the call can have
add_all_stats_to_results(results, np, serial_time) ==
    IF IsNone(serial_time) THEN {Stats(SerialDefaults(results), 0)}
    ELSE IF ParallelTimes(results) = {} THEN {Stats(FallbackDefaults(results), 0)}
    ELSE LET Tp == MaxOf(ParallelTimes(results)) IN
        IF Tp <= 0 THEN {Stats(FallbackDefaults(results), 0)}
        ELSE
            LET S == getSpeedup(Get(serial_time), Tp)
                E == getEfficiency(S, np)
            IN  {Stats(AssignStats(results, S, E, fp), 3)
                 : fp \in getFractionParallelizable(Get(serial_time), Tp, np)}

\* ------------------------------------------------------------------------
\* parse_execution_output
\* ------------------------------------------------------------------------
\* output.strip().split('\n'): an empty output is one empty line
SplitLines(output) == IF output = << >> THEN << << >> >> ELSE output

\* an outcome: the dictionary so far, the exception raised ("none" when the
\* call returns) and the number of calls made into the C library
Ok(results) == [exc |-> "none", results |-> results, libcalls |-> 0]
Raise(exc, results) == [exc |-> exc, results |-> results, libcalls |-> 0]

\* the body of the for loop on one line: the dictionary afterwards, or the
\* exception that leaves the loop
ParseLine(raw, results) ==
    LET line == Lower(raw)
        parts == line
    IN  IF Has(line, "time") THEN
            IF Has(line, "mpi") THEN
                IF Len(parts) < RankIndex + 1 THEN Raise("IndexError", results)
                ELSE IF ~IntParses(parts[RankIndex + 1]) THEN Raise("ValueError", results)
                ELSE IF ~FloatParses(parts[Len(parts)]) THEN Raise("ValueError", results)
                ELSE Ok([results EXCEPT !.ranks =
                            PutRank(@, parts[RankIndex + 1].v, parts[Len(parts)].v)])
            ELSE IF Has(line, "serial") THEN
                IF ~FloatParses(parts[Len(parts)]) THEN Raise("ValueError", results)
                ELSE Ok([results EXCEPT !.serial = Some(parts[Len(parts)].v)])
            ELSE Ok(results)
        ELSE IF Has(line, "summation") THEN
            IF ~IntParses(parts[Len(parts)]) THEN Raise("ValueError", results)
            ELSE Ok([results EXCEPT !.total = Some(parts[Len(parts)].v)])
        ELSE Ok(results)

\* the for loop over lines[i..]
RECURSIVE ParseLines(_, _, _)
ParseLines(lines, i, results) ==
    IF i > Len(lines) THEN Ok(results)
    ELSE LET one == ParseLine(lines[i], results)
         IN  IF one.exc # "none" THEN one
             ELSE ParseLines(lines, i + 1, one.results)

\* parse_execution_output(lib, output, np, serial_time): the set of outcomes,
\* each the returned dictionary or the exception raised
parse_execution_output(output, np, serial_time) ==
    LET parsed == ParseLines(SplitLines(output), 1, EmptyResults)
    IN  IF parsed.exc # "none" THEN {parsed}
        ELSE {[exc |-> "none", results |-> st.results, libcalls |-> st.libcalls]
              : st \in add_all_stats_to_results(parsed.results, np, serial_time)}

\* ------------------------------------------------------------------------
\* Program outputs
\* ------------------------------------------------------------------------
Times == 0..MaxTime
Ranks == 0..MaxRank

\* "MPI Time taken by rank <r> is <t>"
MpiLine(r, t) ==
    <<W("MPI"), W("Time"), W("taken"), W("by"), W("rank"), I(r), W("is"), F(t)>>
\* "Serial Time <t>"
SerialLine(t) == <<W("Serial"), W("Time"), F(t)>>
\* "Summation total <n>"
TotalLine(n) == <<W("Summation"), W("total"), I(n)>>

\* timing lines the code cannot read
MpiShort == <<W("MPI"), W("Time"), F(1)>>
MpiBadRank == <<W("MPI"), W("Time"), W("taken"), W("by"), W("the"), W("rank"), I(0), F(1)>>
MpiBadTime == <<W("MPI"), W("Time"), W("taken"), W("by"), W("rank"), I(0), W("seconds")>>
SerialBad == <<W("Serial"), W("Time"), W("seconds")>>
TotalBad == <<W("Summation"), W("total"), F(6)>>
\* lines without the markers, or with "time" alone
Noise == <<W("debug"), W("hello")>>
Runtime == <<W("runtime"), I(5)>>
Blank == << >>

WellFormedLines ==
    {MpiLine(r, t) : r \in Ranks, t \in Times}
    \cup {SerialLine(t) : t \in Times}
    \cup {TotalLine(6), Noise, Runtime, Blank}
MalformedLines == {MpiShort, MpiBadRank, MpiBadTime, SerialBad, TotalBad}
Lines == WellFormedLines \cup MalformedLines

SeqsUpTo(S, n) == UNION {[1..k -> S] : k \in 0..n}
Outputs == SeqsUpTo(Lines, MaxLines)

\* what the benchmarked program prints in a session
SessionOutputs ==
    {<< >>, <<MpiShort>>,
     <<SerialLine(2), TotalLine(6)>>,
     <<SerialLine(1), MpiLine(0, 1)>>,
     <<MpiLine(0, 1), MpiLine(1, 1)>>,
     <<MpiLine(0, 1), MpiLine(1, 3)>>}

\* a launch that exits non-zero: exit code and captured streams
FailedLaunches ==
    {[returncode |-> 1, stdout |-> << >>, stderr |-> "not enough slots"],
     [returncode |-> 2, stdout |-> <<Noise>>, stderr |-> ""]}

\* ------------------------------------------------------------------------
\* compile_mpi_program and run_executable
\* ------------------------------------------------------------------------
Filenames == {"summation.c", "other.c"}
ProblemSizes == {1000}
WorkerCounts == 1..MaxNp

\* filename.replace('.c', '')
DeriveExecutable(filename) ==
    CASE filename = "summation.c" -> "summation"
      [] filename = "other.c" -> "other"
      [] OTHER -> filename

\* cmd of run_executable: mpirun --use-hwthread-cpus -np <np> ./<executable> <x>
Cmd(exe, x, np) == [np |-> np, exe |-> exe, x |-> x]
NoCmd == [np |-> 0, exe |-> "", x |-> 0]

\* what leaves a handler other than its return value
NoError ==
    [kind |-> "none", cmd |-> NoCmd, returncode |-> 0, stdout |-> << >>, stderr |-> ""]
\* exit(1) in compile_mpi_program
SystemExit == [NoError EXCEPT !.kind = "SystemExit", !.returncode = 1]
\* a variant whose message names the command and the exit code only
RuntimeErrorBrief(cmd, failure) ==
    [kind |-> "RuntimeError", cmd |-> cmd, returncode |-> failure.returncode,
     stdout |-> << >>, stderr |-> ""]
\* RuntimeError(msg) in run_executable
RuntimeError(cmd, failure) ==
    [kind |-> "RuntimeError", cmd |-> cmd, returncode |-> failure.returncode,
     stdout |-> failure.stdout, stderr |-> failure.stderr]
\* a launch as mpirun saw it: the command, the exit code and the streams
Launch(cmd, result) ==
    [cmd |-> cmd, returncode |-> result.returncode,
     stdout |-> result.stdout, stderr |-> result.stderr]
\* a launch that exits 0 with the given output
Success(output) == [returncode |-> 0, stdout |-> output, stderr |-> ""]
\* IndexError or ValueError out of parse_execution_output
ParseError(exc) == [NoError EXCEPT !.kind = exc]

\* ------------------------------------------------------------------------
\* get_analysis: the normalisation of numP
\* ------------------------------------------------------------------------
Range(q) == {q[i] : i \in 1..Len(q)}
NotOne(p) == p # 1

\* a variant that puts 1 in front and leaves the list as it is
NormalizePrepend(numP) == <<1>> \o numP

\* lines 44-47: 1 first, the other counts behind it
Normalize(numP) ==
    IF 1 \in Range(numP) THEN <<1>> \o SelectSeq(numP, NotOne)
    ELSE <<1>> \o numP

\* a variant that stores the reference after every run
CapturesAlways(np) == TRUE

\* line 54: the serial run's results become the reference
Captures(np) == np = 1

\* ------------------------------------------------------------------------
\* State
\* ------------------------------------------------------------------------
VARIABLES
    pc,              \* "boot", "serving", "loop", "returned", "raised", "exited"
    executable,      \* general_utils.executable (module level)
    request,         \* the JSON body: filename, x, numP
    numP,            \* get_analysis: the normalised list
    idx,             \* get_analysis: position of the for loop in numP
    serial_runtime,  \* get_analysis: the serial reference
    response,        \* get_analysis: the response dictionary
    error,           \* the exception that left the handler
    build,           \* history: what mpicc returned to the last compile
    launched,        \* history: this session's launches, each with what mpirun gave
    refs,            \* history: the serial_time arguments given to the parser
    writes,          \* history: assignments to serial_runtime this session
    parked,          \* the locals of the request thread that is not running
    fnOutput, fnNp, fnSerial, fnRet,  \* one call of parse_execution_output
    fnReq, fnNorm                     \* one normalisation of a numP list

sessionVars ==
    <<pc, executable, request, numP, idx, serial_runtime, response, error,
      build, launched, refs, writes, parked>>
parseVars == <<fnOutput, fnNp, fnSerial, fnRet>>
normVars == <<fnReq, fnNorm>>
vars == <<sessionVars, parseVars, normVars>>

NoRequest == [filename |-> "", x |-> 0, numP |-> << >>]
NoResponse == [analyses |-> << >>, graph |-> None]

\* a request thread of the server that has not been handed a request
IdleThread ==
    [pc |-> "serving", request |-> NoRequest, numP |-> << >>, idx |-> 0,
     serial_runtime |-> None, response |-> NoResponse, error |-> NoError,
     launched |-> << >>, refs |-> << >>, writes |-> 0]

SessionInit ==
    /\ parked = IdleThread
    /\ pc = "boot"
    /\ executable = "summation"
    /\ request = NoRequest
    /\ numP = << >>
    /\ idx = 0
    /\ serial_runtime = None
    /\ response = NoResponse
    /\ error = NoError
    /\ build = "none"
    /\ launched = << >>
    /\ refs = << >>
    /\ writes = 0

ParseIdle ==
    /\ fnOutput = << >>
    /\ fnNp = 1
    /\ fnSerial = None
    /\ fnRet = None

NormIdle ==
    /\ fnReq = << >>
    /\ fnNorm = None

\* ------------------------------------------------------------------------
\* The server: module import, then /api/analysis requests
\* ------------------------------------------------------------------------
\* generate_report.py lines 13-17: compile the default program at import
Import(ok) ==
    /\ pc = "boot"
    /\ executable' = DeriveExecutable("summation.c")
    /\ build' = IF ok THEN "ok" ELSE "failed"
    /\ IF ok THEN pc' = "serving" /\ error' = NoError
       ELSE pc' = "exited" /\ error' = SystemExit
    /\ UNCHANGED <<request, numP, idx, serial_runtime, response, launched, refs, writes>>
    /\ UNCHANGED <<parseVars, normVars, parked>>

\* get_analysis lines 34-49: read the body, compile, normalise numP
BeginAnalysis(req, ok) ==
    /\ pc \in {"serving", "returned", "raised"}
    /\ request' = req
    /\ executable' = DeriveExecutable(req.filename)
    /\ build' = IF ok THEN "ok" ELSE "failed"
    /\ launched' = << >>
    /\ refs' = << >>
    /\ writes' = 0
    /\ response' = NoResponse
    /\ serial_runtime' = None
    /\ IF ok
       THEN /\ pc' = "loop"
            /\ numP' = Normalize(req.numP)
            /\ idx' = 1
            /\ error' = NoError
       ELSE /\ pc' = "exited"
            /\ numP' = << >>
            /\ idx' = 0
            /\ error' = SystemExit
    /\ UNCHANGED <<parseVars, normVars, parked>>

\* one pass of the for loop whose launch exits non-zero (lines 51, 27-35)
IterationLaunchFails(failure) ==
    /\ pc = "loop"
    /\ idx <= Len(numP)
    /\ LET cmd == Cmd(executable, request.x, numP[idx])
       IN  /\ launched' = Append(launched, Launch(cmd, failure))
           /\ error' = RuntimeError(cmd, failure)
    /\ pc' = "raised"
    /\ UNCHANGED <<executable, request, numP, idx, serial_runtime, response,
                   build, refs, writes>>
    /\ UNCHANGED <<parseVars, normVars, parked>>

\* one pass of the for loop whose launch succeeds with the given output
\* (lines 51-61)
Iteration(output) ==
    /\ pc = "loop"
    /\ idx <= Len(numP)
    /\ launched' = Append(launched,
                      Launch(Cmd(executable, request.x, numP[idx]), Success(output)))
    /\ refs' = Append(refs, serial_runtime)
    /\ \E parsed \in parse_execution_output(output, numP[idx], serial_runtime) :
          IF parsed.exc # "none"
          THEN /\ pc' = "raised"
               /\ error' = ParseError(parsed.exc)
               /\ UNCHANGED <<idx, serial_runtime, response, writes>>
          ELSE LET analysis_results == parsed.results
                   graph_html == Get(analysis_results.fp)
               IN  /\ IF Captures(numP[idx])
                      THEN /\ serial_runtime' = analysis_results.serial
                           /\ writes' = writes + 1
                      ELSE UNCHANGED <<serial_runtime, writes>>
                   /\ response' =
                        [analyses |-> Append(response.analyses,
                                        [num_processes |-> numP[idx],
                                         results |-> analysis_results,
                                         graph |-> graph_html]),
                         graph |-> response.graph]
                   /\ idx' = idx + 1
                   /\ UNCHANGED <<pc, error>>
    /\ UNCHANGED <<executable, request, numP, build>>
    /\ UNCHANGED <<parseVars, normVars, parked>>

\* lines 63-67: the loop is over, the response goes back
Return ==
    /\ pc = "loop"
    /\ idx > Len(numP)
    /\ pc' = "returned"
    /\ response' = [response EXCEPT !.graph =
                        Some(response.analyses[Len(response.analyses)].graph)]
    /\ UNCHANGED <<executable, request, numP, idx, serial_runtime, error,
                   build, launched, refs, writes>>
    /\ UNCHANGED <<parseVars, normVars, parked>>

Requests ==
    [filename : Filenames, x : ProblemSizes,
     numP : SeqsUpTo(1..MaxSessionNp, MaxCounts)]

Init == SessionInit /\ ParseIdle /\ NormIdle

Next ==
    \/ \E ok \in BOOLEAN : Import(ok)
    \/ \E req \in Requests, ok \in BOOLEAN : BeginAnalysis(req, ok)
    \/ \E failure \in FailedLaunches : IterationLaunchFails(failure)
    \/ \E output \in SessionOutputs : Iteration(output)
    \/ Return

Spec == Init /\ [][Next]_vars

\* ------------------------------------------------------------------------
\* parse_execution_output on its own
\* ------------------------------------------------------------------------
CallParse ==
    /\ IsNone(fnRet)
    /\ \E outcome \in parse_execution_output(fnOutput, fnNp, fnSerial) :
          fnRet' = Some(outcome)
    /\ UNCHANGED <<fnOutput, fnNp, fnSerial>>
    /\ UNCHANGED <<sessionVars, normVars>>

InitParse ==
    /\ SessionInit
    /\ NormIdle
    /\ fnOutput \in Outputs
    /\ fnNp \in WorkerCounts
    /\ fnSerial \in {None} \cup {Some(t) : t \in Times}
    /\ fnRet = None

NextParse == CallParse

SpecParse == InitParse /\ [][NextParse]_vars

\* ------------------------------------------------------------------------
\* the normalisation of numP on its own
\* ------------------------------------------------------------------------
CallNormalize ==
    /\ IsNone(fnNorm)
    /\ fnNorm' = Some(Normalize(fnReq))
    /\ UNCHANGED fnReq
    /\ UNCHANGED <<sessionVars, parseVars>>

InitNorm ==
    /\ SessionInit
    /\ ParseIdle
    /\ fnReq \in SeqsUpTo(WorkerCounts, MaxReqLen)
    /\ fnNorm = None

NextNorm == CallNormalize

SpecNorm == InitNorm /\ [][NextNorm]_vars

\* ------------------------------------------------------------------------
\* Two requests in flight: app.run() serves each request on a thread of its
\* own.  The locals of get_analysis belong to the thread; executable is the
\* module-level variable of general_utils and belongs to the process.
\* ------------------------------------------------------------------------
\* the scheduler takes the running request thread off and puts the other on
Switch ==
    /\ pc \in {"serving", "loop", "returned", "raised"}
    /\ parked' = [pc |-> pc, request |-> request, numP |-> numP, idx |-> idx,
                  serial_runtime |-> serial_runtime, response |-> response,
                  error |-> error, launched |-> launched, refs |-> refs,
                  writes |-> writes]
    /\ pc' = parked.pc
    /\ request' = parked.request
    /\ numP' = parked.numP
    /\ idx' = parked.idx
    /\ serial_runtime' = parked.serial_runtime
    /\ response' = parked.response
    /\ error' = parked.error
    /\ launched' = parked.launched
    /\ refs' = parked.refs
    /\ writes' = parked.writes
    /\ UNCHANGED <<executable, build>>
    /\ UNCHANGED <<parseVars, normVars>>

TwoRequests ==
    [filename : Filenames, x : ProblemSizes,
     numP : SeqsUpTo(1..MaxTwoNp, MaxTwoCounts)]

TwoOutputs == {<<SerialLine(2), MpiLine(0, 1)>>, <<MpiShort>>}

NextTwo ==
    \/ \E ok \in BOOLEAN : Import(ok)
    \/ \E req \in TwoRequests, ok \in BOOLEAN : BeginAnalysis(req, ok)
    \/ \E failure \in FailedLaunches : IterationLaunchFails(failure)
    \/ \E output \in TwoOutputs : Iteration(output)
    \/ Return
    \/ Switch

SpecTwo == Init /\ [][NextTwo]_vars

\* ------------------------------------------------------------------------
\* Properties
\* ------------------------------------------------------------------------

\* C1: the normalised numP starts with 1 and is followed by the requested
\* counts other than 1 in their requested order, whether or not 1 was asked
\* for ([4,1,2] -> [1,4,2] and [4,2] -> [1,4,2]).
C1_NormalizedOneFirst ==
    ~IsNone(fnNorm) =>
        LET n == Get(fnNorm)
            others == {i \in 1..Len(fnReq) : fnReq[i] # 1}
        IN  /\ n[1] = 1
            /\ Len(n) = 1 + Cardinality(others)
            /\ \A i \in 2..Len(n) : n[i] # 1
            /\ \A i \in others :
                  n[1 + Cardinality({j \in others : j <= i})] = fnReq[i]
            /\ (fnReq = <<4, 1, 2>> => n = <<1, 4, 2>>)
            /\ (fnReq = <<4, 2>> => n = <<1, 4, 2>>)

C1_Witness == fnReq = <<4, 1, 2>> /\ fnNorm = Some(<<1, 4, 2>>)

\* C2: once the first pass of a session is over, no later pass of that
\* session assigns the serial reference: it is written at most once.
C2_ReferenceWrittenOnce ==
    [][pc = "loop" /\ idx > 1 =>
          serial_runtime' = serial_runtime /\ writes' = writes /\ writes = 1]_vars

\* a later run printed a serial time of its own and the reference stayed
C2_Witness ==
    /\ pc = "loop"
    /\ Len(response.analyses) >= 2
    /\ response.analyses[2].results.serial = Some(1)
    /\ serial_runtime = Some(2)
    /\ writes = 1

\* C3: the parser is given None as serial reference in the first pass of a
\* session and in no other pass, whatever the first run printed.
C3_NoneOnlyInFirstPass ==
    \A i \in 1..Len(refs) : IsNone(refs[i]) <=> i = 1

\* C4: parse_execution_output returns for every text, and every readable
\* rank line of the text is in the returned dictionary.
C4_ParseNeverRaises ==
    ~IsNone(fnRet) =>
        /\ Get(fnRet).exc = "none"
        /\ \A i \in 1..Len(fnOutput) : \A r \in Ranks, t \in Times :
              fnOutput[i] = MpiLine(r, t) => r \in DOMAIN Get(fnRet).results.ranks

\* C5: a failed build reaches the caller as a BuildFailure error, the
\* process keeps running, and the session launches nothing.
C5_BuildFailureIsAnError ==
    build = "failed" =>
        /\ pc = "raised"
        /\ error.kind = "BuildFailure"
        /\ launched = << >>

\* C6: when a launch exits non-zero the error that leaves the session
\* carries the command, the exit code, the captured stdout and stderr of
\* that launch; it is the session's last launch, every earlier worker count
\* has its entry, the failed one has none, and nothing is launched after it.
C6_LaunchFailureFailsFast ==
    /\ [](error.kind = "RuntimeError" =>
            /\ pc = "raised"
            /\ Len(launched) = idx
            /\ error.cmd = Cmd(DeriveExecutable(request.filename), request.x, numP[idx])
            /\ Launch(error.cmd, error) = launched[idx]
            /\ error.returncode # 0
            /\ \A j \in 1..(idx - 1) : launched[j].returncode = 0
            /\ Len(response.analyses) = idx - 1
            /\ \A j \in 1..(idx - 1) : response.analyses[j].num_processes = numP[j])
    /\ [][error.kind = "RuntimeError" =>
            launched' = << >> /\ response'.analyses = << >>]_vars

\* the launch for the second worker count failed with output on both streams
C6_Witness ==
    /\ error.kind = "RuntimeError"
    /\ idx = 2
    /\ Len(numP) = 3
    /\ error.stderr = "not enough slots"
    /\ Len(response.analyses) = 1

\* C7: a session whose launches all succeed returns a report with one entry
\* per element of the normalised numP, in that order, the first entry with
\* the serial defaults.
C7_ReportPerWorkerCount ==
    (pc \in {"returned", "raised"} /\ error.kind # "RuntimeError") =>
        /\ pc = "returned"
        /\ Len(response.analyses) = Len(numP)
        /\ \A i \in 1..Len(numP) : response.analyses[i].num_processes = numP[i]
        /\ response.analyses[1].results.speedup = Some(Scale)
        /\ response.analyses[1].results.efficiency = Some(Scale)
        /\ response.analyses[1].results.fp = Some(0)
        /\ response.analyses[1].results.fs = Some(Scale)

\* C8: every dictionary parse_execution_output returns has 0 <= fp <= 1 and
\* fp + fs = 1.
C8_FractionsInRange ==
    (~IsNone(fnRet) /\ Get(fnRet).exc = "none") =>
        LET r == Get(fnRet).results
        IN  /\ Get(r.fp) \in 0..Scale
            /\ Get(r.fp) + Get(r.fs) = Scale

\* the computed branch with a fraction strictly inside the range
C8_Witness ==
    /\ ~IsNone(fnRet)
    /\ Get(fnRet).exc = "none"
    /\ Get(fnRet).libcalls = 3
    /\ Get(Get(fnRet).results.fp) \in 1..(Scale - 1)

\* C9: with a serial reference T1 > 0 and at least one parsed rank time, the
\* slowest of them Tp > 0, speedup is T1 / Tp and efficiency is
\* T1 / (Tp * np), each rounded to six decimals.
C9_SpeedupFromSlowestRank ==
    (/\ ~IsNone(fnRet)
     /\ Get(fnRet).exc = "none"
     /\ ~IsNone(fnSerial)
     /\ Get(fnSerial) > 0
     /\ DOMAIN Get(fnRet).results.ranks # {}) =>
        LET r == Get(fnRet).results
            T1 == Get(fnSerial)
            Tp == CHOOSE t \in {r.ranks[k] : k \in DOMAIN r.ranks} :
                      \A k \in DOMAIN r.ranks : r.ranks[k] <= t
            S == Get(r.speedup)
            E == Get(r.efficiency)
        IN  Tp > 0 =>
              /\ 2 * (S * Tp - T1 * Scale) \in (0 - Tp)..Tp
              /\ 2 * (E * Tp * fnNp - T1 * Scale) \in (0 - Tp * fnNp)..(Tp * fnNp)

\* two ranks with different times, the slower one decides
C9_Witness ==
    /\ ~IsNone(fnRet)
    /\ Get(fnRet).exc = "none"
    /\ fnSerial = Some(3)
    /\ fnNp = 2
    /\ DOMAIN Get(fnRet).results.ranks = {0, 1}
    /\ Get(fnRet).results.ranks[0] = 1
    /\ Get(fnRet).results.ranks[1] = 2
    /\ Get(fnRet).results.speedup = Some(1500000)
    /\ Get(fnRet).results.efficiency = Some(750000)

\* C10: without a serial reference the metrics are speedup 1.0, efficiency
\* 1.0, fp 0.0 and fs 1.0 whatever the output held, and the C library is not
\* called.
C10_SerialBaselineDefaults ==
    (~IsNone(fnRet) /\ Get(fnRet).exc = "none" /\ IsNone(fnSerial)) =>
        LET r == Get(fnRet).results
        IN  /\ r.speedup = Some(Scale)
            /\ r.efficiency = Some(Scale)
            /\ r.fp = Some(0)
            /\ r.fs = Some(Scale)
            /\ Get(fnRet).libcalls = 0

\* no reference, and an output with a rank time and a serial time
C10_Witness ==
    /\ ~IsNone(fnRet)
    /\ Get(fnRet).exc = "none"
    /\ IsNone(fnSerial)
    /\ DOMAIN Get(fnRet).results.ranks # {}
    /\ Get(fnRet).results.serial = Some(2)

\* C11: every launch of a session runs the executable named after that
\* session's own source file, also when two sessions with different source
\* files interleave.
C11_LaunchRunsOwnExecutable ==
    /\ \A i \in 1..Len(launched) :
          launched[i].cmd.exe = DeriveExecutable(request.filename)
    /\ \A i \in 1..Len(parked.launched) :
          parked.launched[i].cmd.exe = DeriveExecutable(parked.request.filename)

====
